---- MODULE Spec2Model ----
(***************************************************************************)
(* Focus Session & Distraction Detection Engine of the FocusMode component *)
(* (src/components/FocusMode.tsx) together with the remote session         *)
(* collaborator it calls through focusApi (src/unnamed/part_006).          *)
(*                                                                         *)
(* One action is one turn of the event loop: a DOM event handler, a timer   *)
(* callback, or the continuation of an awaited remote call, followed by    *)
(* the render it schedules and the effects of that render (CommitRender).  *)
(* Remote calls are split at their await: request sent, handled by the     *)
(* remote, response delivered.                                             *)
(***************************************************************************)
EXTENDS Integers, Sequences, FiniteSets, Bags, TLC

\* ---------------------------------------------------------------- bounds
MaxSessions == 2      \* remote sessions created
MaxInFlight == 2      \* remote calls outstanding at once
MaxEvents == 3        \* length of distractionLog explored (SpecWatch)
MaxLogged == 1        \* length of distractionLog explored (Spec, SpecExit)
MaxAdvances == 3      \* clock advances explored (SpecWatch)
MaxExitAdvances == 2  \* clock advances explored (SpecExit)
MaxBlocked == 2       \* blockedCount explored by visibility changes
TickHorizon == 2      \* single ticks are explored for timeLeft <= TickHorizon
MaxMixedLen == 3      \* session logs of every composition up to this length (SpecSummary)
MaxSummaryLen == 21   \* session logs of three compositions up to this length (SpecSummary)

\* ------------------------------------------------------ program constants
WORK_MINUTES == 25
BREAK_MINUTES == 5
SECONDS_PER_MINUTE == 60
MS_PER_SECOND == 1000
STREAK_WINDOW_MS == 120000
CRITICAL_STREAK == 3
WARNING_DISMISS_MS == 4000
CRITICAL_DISMISS_MS == 6000
AWAY_LIMIT_S == 5
IDLE_MS == 180000
FULL_SCORE == 100
SCORE_PER_DISTRACTION == 5

NoId == 0             \* currentSessionId === null
NoTime == 0           \* hiddenTime = 0, lastDistractionTime.current = 0, no timer

\* Date.now() when the component mounts: any epoch time, far more than
\* STREAK_WINDOW_MS after the initial lastDistractionTime of 0.
MountTime == 10 * STREAK_WINDOW_MS

NoAlert == [type |-> "none", severity |-> "none", raisedAt |-> 0]
NoTimer == [at |-> NoTime, isActive |-> FALSE, sessionType |-> "Work"]

SessionTypes == {"Work", "Break"}

VARIABLES
  \* useState
  timeLeft, isActive, sessionType, currentSessionId, sessionCompleted,
  blockedCount, distractionAlert, distractionLog, streakWarning,
  showRefocusPrompt, showSessionSummary, sessionDistractions,
  \* useRef
  lastDistractionTime, distractionStreak, alertTimeout,
  \* effect-owned resources
  timerOn,          \* the 1 s interval of the timer effect is running
  tickClosure,      \* currentSessionId / blockedCount seen by its handleSessionComplete
  idleTimer,        \* pending idle setTimeout with the closure it captured
  hiddenTime,       \* local of the visibility effect
  bannerTimer,      \* a setTimeout(() => setSessionCompleted(false)) is pending
  \* environment
  now,              \* Date.now()
  docHidden,        \* document.hidden
  permission,       \* Notification.permission
  permPending,      \* Notification.requestPermission() unanswered
  notified,         \* the last DistractionEvent showed a system notification
  defaultPrevented, \* the last shortcut key-down had preventDefault() called
  remote,           \* the remote session record
  inflight,         \* remote calls awaiting their continuation
  \* history
  advances,
  lastInput,        \* when the idle interval last restarted
  sessEvents        \* DistractionEvents emitted since the last adopted start, stop or reset

vars == <<timeLeft, isActive, sessionType, currentSessionId, sessionCompleted,
          blockedCount, distractionAlert, distractionLog, streakWarning,
          showRefocusPrompt, showSessionSummary, sessionDistractions,
          lastDistractionTime, distractionStreak, alertTimeout,
          timerOn, tickClosure, idleTimer, hiddenTime, bannerTimer,
          now, docHidden, permission, permPending, notified, defaultPrevented,
          remote, inflight, advances, lastInput, sessEvents>>

uiVars == <<sessionCompleted, showSessionSummary, bannerTimer>>
alertVars == <<distractionAlert, distractionLog, streakWarning, sessionDistractions,
               lastDistractionTime, distractionStreak, alertTimeout, notified>>
envVars == <<now, docHidden, permission, advances>>

\* ---------------------------------------------------------------- helpers
\* The calls in flight are a bag: the order they were sent in decides nothing.
Sent(m) == inflight (+) SetToBag({m})
Settled(m) == inflight (-) SetToBag({m})
Answered(m, r) == (inflight (-) SetToBag({m})) (+) SetToBag({r})
InFlight == BagCardinality(inflight)

Max(a, b) == IF a >= b THEN a ELSE b

\* Math.ceil(a / b) for a >= 0, b > 0
CeilDiv(a, b) == (a + b - 1) \div b

\* sessionType === 'Work' ? 25 : 5
DurationMinutes(t) == IF t = "Work" THEN WORK_MINUTES ELSE BREAK_MINUTES

\* sessionType === 'Work' ? 25 * 60 : 5 * 60
totalSeconds(t) == DurationMinutes(t) * SECONDS_PER_MINUTE

Msg(op, dur, completed, src) ==
  [op |-> op, st |-> "req", dur |-> dur, completed |-> completed, src |-> src,
   active |-> FALSE, id |-> NoId, start |-> 0, planned |-> 0]

\* ------------------------------------------------------- streak escalator
\* Mutant: the window includes a gap of exactly 120 000 ms.
NextStreakInclusive(streak, timeSinceLast) ==
  IF timeSinceLast <= STREAK_WINDOW_MS THEN streak + 1 ELSE 1

\* timeSinceLast < 120000 ? streak + 1 : 1
NextStreak(streak, timeSinceLast) ==
  IF timeSinceLast < STREAK_WINDOW_MS THEN streak + 1 ELSE 1

\* Mutant: critical only above three.
SeverityAboveThree(streak) == IF streak > CRITICAL_STREAK THEN "critical" ELSE "warning"

\* distractionStreakRef.current >= 3 ? 'critical' : 'warning'
Severity(streak) == IF streak >= CRITICAL_STREAK THEN "critical" ELSE "warning"

\* severity === 'critical' ? 6000 : 4000
DismissDelay(severity) ==
  IF severity = "critical" THEN CRITICAL_DISMISS_MS ELSE WARNING_DISMISS_MS

\* Mutant: the pending dismissal of the previous Alert is not cancelled.
DismissalNotCancelled(severity) ==
  IF alertTimeout # NoTime THEN alertTimeout ELSE now + DismissDelay(severity)

\* clearTimeout(alertTimeoutRef.current); alertTimeoutRef.current = setTimeout(...)
ScheduledDismissal(severity) == now + DismissDelay(severity)

\* Mutant: the system notification is not gated on the permission.
ShowsNotificationUngated(severity, perm) == severity = "critical"

\* severity === 'critical' && Notification.permission === 'granted'
ShowsNotification(severity, perm) == severity = "critical" /\ perm = "granted"

\* triggerDistractionAlert(type) as the callback of the render in which
\* isActive = capActive and sessionType = capType.
triggerDistractionAlert(type, capActive, capType) ==
  IF ~capActive \/ capType # "Work"
  THEN UNCHANGED <<alertVars, sessEvents>>
  ELSE LET timeSinceLast == now - lastDistractionTime
           streak == NextStreak(distractionStreak, timeSinceLast)
           severity == Severity(streak)
       IN /\ lastDistractionTime' = now
          \* const entry = { time: new Date(), type }
          /\ distractionLog' = Append(distractionLog, [time |-> now, type |-> type])
          /\ sessionDistractions' = Append(sessionDistractions, [time |-> now, type |-> type])
          /\ distractionStreak' = streak
          /\ distractionAlert' = [type |-> type, severity |-> severity, raisedAt |-> now]
          /\ streakWarning' = (streak >= CRITICAL_STREAK \/ streakWarning)
          /\ alertTimeout' = ScheduledDismissal(severity)
          /\ notified' = ShowsNotification(severity, permission)
          /\ sessEvents' = sessEvents + 1

\* ------------------------------------------------------------- effects
\* The watchdog effects run only while isActive && sessionType === 'Work'.
WatchdogsOn(a, t) == a /\ t = "Work"

\* Mutant: the cleanup of the idle effect leaves the timer pending.
IdleTimerLeaked == idleTimer

\* cleanup of the idle effect: clearTimeout(idleTimer)
ClearedIdleTimer == NoTimer

\* Mutant: resetIdle leaves a pending idle timer running.
IdleTimerNotRestarted(a, t) ==
  IF idleTimer.at # NoTime THEN idleTimer
  ELSE [at |-> now + IDLE_MS, isActive |-> a, sessionType |-> t]

\* resetIdle: clearTimeout(idleTimer); idleTimer = setTimeout(..., 180000)
ArmedIdleTimer(a, t) == [at |-> now + IDLE_MS, isActive |-> a, sessionType |-> t]

\* Mutant: the interval is not cleared when isActive becomes false.
IntervalKeptWhenInactive(a, tl) == tl > 0

\* timer effect: if (isActive && timeLeft > 0) setInterval(...) else clearInterval(...)
IntervalRuns(a, tl) == a /\ tl > 0

\* The render after a handler left isActive = a, sessionType = t, timeLeft = tl,
\* currentSessionId = sid, blockedCount = bc, and the effects whose
\* dependencies changed.
CommitRender(a, t, tl, sid, bc) ==
  LET depsChanged == a # isActive \/ t # sessionType
  IN /\ isActive' = a
     /\ sessionType' = t
     /\ timeLeft' = tl
     /\ currentSessionId' = sid
     \* blocked-attempt effect: if (!isActive) setBlockedCount(0)
     /\ blockedCount' = IF depsChanged /\ ~a THEN 0 ELSE bc
     \* timer effect, dependencies [isActive]
     /\ IF a # isActive
        THEN /\ timerOn' = IntervalRuns(a, tl)
             /\ tickClosure' = IF a /\ tl > 0
                               THEN [sid |-> sid, blocked |-> bc]
                               ELSE tickClosure
        ELSE UNCHANGED <<timerOn, tickClosure>>
     \* visibility and idle effects, dependencies [isActive, sessionType, trigger]
     /\ IF depsChanged
        THEN /\ hiddenTime' = NoTime
             /\ idleTimer' = IF WatchdogsOn(a, t) THEN ArmedIdleTimer(a, t)
                             ELSE ClearedIdleTimer
             /\ lastInput' = IF WatchdogsOn(a, t) THEN now ELSE lastInput
        ELSE UNCHANGED <<hiddenTime, idleTimer, lastInput>>
     \* DND effect: Notification.requestPermission() while permission is 'default'
     /\ permPending' = (permPending \/
                        (depsChanged /\ WatchdogsOn(a, t) /\ permission = "default"))

\* ---------------------------------------------------------------- Init
\* The remote record of a session started by an earlier page load, ElapsedMs ago.
EarlierSession(elapsedMs) ==
  [active |-> TRUE, id |-> 1, start |-> MountTime - elapsedMs, planned |-> WORK_MINUTES]

NoRemoteSession == [active |-> FALSE, id |-> 0, start |-> 0, planned |-> 0]

\* Elapsed times of an earlier session at mount: almost over, and over.
MountElapsedMs == {totalSeconds("Work") * MS_PER_SECOND - 1500,
                   totalSeconds("Work") * MS_PER_SECOND}

Init ==
  /\ timeLeft = WORK_MINUTES * SECONDS_PER_MINUTE
  /\ isActive = FALSE
  /\ sessionType = "Work"
  /\ currentSessionId = NoId
  /\ sessionCompleted = FALSE
  /\ blockedCount = 0
  /\ distractionAlert = NoAlert
  /\ distractionLog = <<>>
  /\ streakWarning = FALSE
  /\ showRefocusPrompt = FALSE
  /\ showSessionSummary = FALSE
  /\ sessionDistractions = <<>>
  /\ lastDistractionTime = NoTime
  /\ distractionStreak = 0
  /\ alertTimeout = NoTime
  /\ timerOn = FALSE
  /\ tickClosure = [sid |-> NoId, blocked |-> 0]
  /\ idleTimer = NoTimer
  /\ hiddenTime = NoTime
  /\ bannerTimer = FALSE
  /\ now = MountTime
  /\ docHidden = FALSE
  /\ permission = "default"
  /\ permPending = FALSE
  /\ notified = FALSE
  /\ defaultPrevented = FALSE
  /\ remote \in {NoRemoteSession} \cup {EarlierSession(e) : e \in MountElapsedMs}
  \* checkActiveSession() is called by the mount effect
  /\ inflight = SetToBag({Msg("active", 0, FALSE, "mount")})
  /\ advances = 0
  /\ lastInput = NoTime
  /\ sessEvents = 0

commitVars == <<isActive, sessionType, timeLeft, currentSessionId, blockedCount,
                timerOn, tickClosure, hiddenTime, idleTimer, lastInput, permPending>>

\* ------------------------------------------------------ remote collaborator
\* POST /focus/start: fails with AlreadyActive while a session is active.
RemoteStart(m) ==
  /\ BagIn(m, inflight)
  /\ m.op = "start" /\ m.st = "req"
  /\ IF remote.active
     THEN /\ inflight' = Answered(m, [m EXCEPT !.st = "already"])
          /\ UNCHANGED remote
     ELSE /\ remote' = [active |-> TRUE, id |-> remote.id + 1, start |-> now,
                        planned |-> m.dur]
          /\ inflight' = Answered(m, [m EXCEPT !.st = "ok", !.id = remote.id + 1])
  /\ UNCHANGED <<commitVars, uiVars, showRefocusPrompt, alertVars, envVars, sessEvents>>
  /\ UNCHANGED defaultPrevented

\* POST /focus/end: idempotent, a no-op on a session that already ended.
RemoteEnd(m) ==
  /\ BagIn(m, inflight)
  /\ m.op = "end" /\ m.st = "req"
  /\ remote' = [remote EXCEPT !.active = FALSE]
  /\ inflight' = Answered(m, [m EXCEPT !.st = "ok"])
  /\ UNCHANGED <<commitVars, uiVars, showRefocusPrompt, alertVars, envVars, sessEvents>>
  /\ UNCHANGED defaultPrevented

\* GET /focus/active
RemoteGetActive(m) ==
  /\ BagIn(m, inflight)
  /\ m.op = "active" /\ m.st = "req"
  /\ inflight' = Answered(m, [m EXCEPT !.st = "ok", !.active = remote.active,
                                         !.id = remote.id, !.start = remote.start,
                                         !.planned = remote.planned])
  /\ UNCHANGED <<remote, commitVars, uiVars, showRefocusPrompt, alertVars, envVars, sessEvents>>
  /\ UNCHANGED defaultPrevented

\* fetch rejects: the request is lost, or the response to a call that took effect.
NetworkFailure(m) ==
  /\ BagIn(m, inflight)
  /\ \/ m.st = "req"
     \/ m.st = "ok" /\ m.op \in {"start", "end"}
  /\ inflight' = Answered(m, [m EXCEPT !.st = "fail"])
  /\ UNCHANGED <<remote, commitVars, uiVars, showRefocusPrompt, alertVars, envVars, sessEvents>>
  /\ UNCHANGED defaultPrevented

\* ------------------------------------------------------------ handleStart
\* The start button (shown while !isActive): handleStart up to its await.
handleStart ==
  /\ ~isActive
  /\ remote.id < MaxSessions
  /\ InFlight < MaxInFlight
  /\ inflight' = Sent(Msg("start", DurationMinutes(sessionType), FALSE, "start"))
  /\ UNCHANGED <<remote, commitVars, uiVars, showRefocusPrompt, alertVars, envVars, sessEvents>>
  /\ UNCHANGED defaultPrevented

\* handleStart after startSession resolved
handleStartResolved(m) ==
  /\ BagIn(m, inflight)
  /\ m.op = "start" /\ m.st = "ok"
  /\ inflight' = Settled(m)
  /\ CommitRender(TRUE, sessionType, m.dur * SECONDS_PER_MINUTE,
                  m.id, 0)
  /\ sessionCompleted' = FALSE
  /\ sessEvents' = IF isActive THEN sessEvents ELSE 0
  /\ UNCHANGED <<remote, showSessionSummary, bannerTimer, showRefocusPrompt, alertVars,
                 envVars>>
  /\ UNCHANGED defaultPrevented

\* Mutant: no rejected start resumes.
StartErrorNeverResumes(st) == FALSE

\* Mutant: every rejected start resumes.
StartErrorAlwaysResumes(st) == TRUE

\* error.message.includes('already have an active')
StartErrorResumes(st) == st = "already"

\* handleStart after startSession rejected: the catch block
handleStartRejected(m) ==
  /\ BagIn(m, inflight)
  /\ m.op = "start" /\ m.st \in {"already", "fail"}
  /\ inflight' = Settled(m)
  /\ IF StartErrorResumes(m.st)
     THEN CommitRender(TRUE, sessionType, timeLeft, currentSessionId, blockedCount)
     ELSE UNCHANGED commitVars
  /\ UNCHANGED <<remote, uiVars, showRefocusPrompt, alertVars, envVars, sessEvents>>
  /\ UNCHANGED defaultPrevented

\* ------------------------------------------------------ checkActiveSession
\* Mutant: the elapsed time is rounded down to whole seconds before it is taken off.
ResumeRemainingElapsedFloored(planned, start) ==
  Max(0, planned * SECONDS_PER_MINUTE - (now - start) \div MS_PER_SECOND)

\* Math.floor(Math.max(0, planned_duration * 60 - (Date.now() - start_time) / 1000))
ResumeRemaining(planned, start) ==
  Max(0, planned * SECONDS_PER_MINUTE - CeilDiv(now - start, MS_PER_SECOND))

\* checkActiveSession after getActiveSession settled
checkActiveSession(m) ==
  /\ BagIn(m, inflight)
  /\ m.op = "active" /\ m.st \in {"ok", "fail"}
  /\ inflight' = Settled(m)
  /\ IF m.st = "ok" /\ m.active
     THEN /\ CommitRender(TRUE, sessionType,
                          ResumeRemaining(m.planned, m.start),
                          m.id, blockedCount)
     ELSE UNCHANGED commitVars
  /\ UNCHANGED <<remote, uiVars, showRefocusPrompt, alertVars, envVars, sessEvents>>
  /\ UNCHANGED defaultPrevented

\* ------------------------------------------------- pause, stop, reset, type
\* Mutant: pause toggles the status.
StatusToggled(a) == ~a

\* handlePause: setIsActive(false)
StatusAfterPause(a) == FALSE

\* handlePause, in whatever state it is invoked (the button shows it while isActive)
handlePause ==
  /\ CommitRender(StatusAfterPause(isActive), sessionType, timeLeft, currentSessionId,
                  blockedCount)
  /\ UNCHANGED sessEvents
  /\ UNCHANGED <<remote, inflight, uiVars, showRefocusPrompt, alertVars, envVars>>
  /\ UNCHANGED defaultPrevented

\* if (currentSessionId) await focusApi.endSession(...)
CallsEndSession(sid) == sid # NoId

\* Mutant: stop leaves the remaining time as it is.
StopRemainingKept(t, tl) == tl

\* Mutant: stop adds the configured duration to the remaining time.
StopRemainingAdded(t, tl) == tl + totalSeconds(t)

\* handleStop: setTimeLeft(sessionType === 'Work' ? 25 * 60 : 5 * 60)
StopRemaining(t, tl) == totalSeconds(t)

handleStop ==
  /\ CallsEndSession(currentSessionId) => InFlight < MaxInFlight
  /\ CommitRender(FALSE, sessionType, StopRemaining(sessionType, timeLeft),
                  currentSessionId, blockedCount)
  /\ inflight' = IF CallsEndSession(currentSessionId)
                 THEN Sent(Msg("end", 0, FALSE, "stop"))
                 ELSE inflight
  /\ sessEvents' = 0
  /\ UNCHANGED <<remote, uiVars, showRefocusPrompt, alertVars, envVars>>
  /\ UNCHANGED defaultPrevented

\* Mutant: the session id is dropped whether or not the end call succeeded.
IdAfterEndAlwaysNull(st, sid) == NoId

\* try { await focusApi.endSession(...); setCurrentSessionId(null) } catch { log }
IdAfterEnd(st, sid) == IF st = "ok" THEN NoId ELSE sid

\* handleStop / handleSessionComplete after endSession settled
endSessionSettled(m) ==
  /\ BagIn(m, inflight)
  /\ m.op = "end" /\ m.st \in {"ok", "fail"}
  /\ inflight' = Settled(m)
  /\ CommitRender(isActive, sessionType, timeLeft, IdAfterEnd(m.st, currentSessionId),
                  blockedCount)
  \* handleSessionComplete: setTimeout(() => setSessionCompleted(false), 3000)
  /\ bannerTimer' = (bannerTimer \/ m.src = "complete")
  /\ UNCHANGED <<remote, sessionCompleted, showSessionSummary, showRefocusPrompt,
                 alertVars, envVars, sessEvents>>
  /\ UNCHANGED defaultPrevented

\* Mutant: reset leaves the streak count.
StreakKept == distractionStreak

\* handleReset: distractionStreakRef.current = 0
ClearedStreak == 0

handleReset ==
  /\ CommitRender(FALSE, sessionType, totalSeconds(sessionType), NoId, 0)
  /\ sessionCompleted' = FALSE
  /\ distractionAlert' = NoAlert
  /\ distractionLog' = <<>>
  /\ streakWarning' = FALSE
  /\ showRefocusPrompt' = FALSE
  /\ sessionDistractions' = <<>>
  /\ showSessionSummary' = FALSE
  /\ distractionStreak' = ClearedStreak
  /\ lastDistractionTime' = NoTime
  /\ sessEvents' = 0
  /\ UNCHANGED <<remote, inflight, bannerTimer, alertTimeout, notified, envVars>>
  /\ UNCHANGED defaultPrevented

\* The Work / Break toggle: if (!isActive) { setSessionType(t); setTimeLeft(...) }
switchSessionType(t) ==
  /\ ~isActive
  /\ CommitRender(isActive, t, totalSeconds(t), currentSessionId, blockedCount)
  /\ UNCHANGED <<remote, inflight, uiVars, showRefocusPrompt, alertVars, envVars, sessEvents>>
  /\ UNCHANGED defaultPrevented

\* ------------------------------------------------------------ timer tick
\* handleSessionComplete of the render that created the interval
handleSessionComplete ==
  /\ CallsEndSession(tickClosure.sid) => InFlight < MaxInFlight
  /\ CommitRender(FALSE, sessionType, 0, currentSessionId, blockedCount)
  /\ sessionCompleted' = TRUE
  /\ showSessionSummary' = TRUE
  /\ IF CallsEndSession(tickClosure.sid)
     THEN /\ inflight' = Sent(Msg("end", 0, TRUE, "complete"))
          /\ UNCHANGED bannerTimer
     ELSE /\ bannerTimer' = TRUE
          /\ UNCHANGED inflight

\* setTimeLeft(prev => prev <= 1 ? (handleSessionComplete(), 0) : prev - 1)
Tick ==
  /\ timerOn
  /\ IF timeLeft <= 1
     THEN handleSessionComplete
     ELSE /\ CommitRender(isActive, sessionType, timeLeft - 1, currentSessionId,
                          blockedCount)
          /\ UNCHANGED <<inflight, uiVars>>
  /\ UNCHANGED sessEvents
  /\ UNCHANGED <<remote, showRefocusPrompt, alertVars, envVars>>
  /\ UNCHANGED defaultPrevented

\* The interval fires again and again, nothing else in between, until
\* TickHorizon seconds remain.
TickRun ==
  /\ timerOn
  /\ timeLeft > TickHorizon
  /\ CommitRender(isActive, sessionType, TickHorizon, currentSessionId, blockedCount)
  /\ UNCHANGED sessEvents
  /\ UNCHANGED <<remote, inflight, uiVars, showRefocusPrompt, alertVars, envVars>>
  /\ UNCHANGED defaultPrevented

\* setTimeout(() => setSessionCompleted(false), 3000) fires
bannerExpires ==
  /\ bannerTimer
  /\ sessionCompleted' = FALSE
  /\ bannerTimer' \in BOOLEAN
  /\ UNCHANGED <<remote, inflight, showSessionSummary, commitVars, showRefocusPrompt,
                 alertVars, envVars, sessEvents>>
  /\ UNCHANGED defaultPrevented

\* ------------------------------------------------------------- watchdogs
\* Mutant: an away duration of exactly 5 s counts.
AwayAtLeastLimit(awayMs) == awayMs >= AWAY_LIMIT_S * MS_PER_SECOND

\* (Date.now() - hiddenTime) / 1000 > 5
AwayTooLong(awayMs) == awayMs > AWAY_LIMIT_S * MS_PER_SECOND

\* visibilitychange, document.hidden becoming true
pageHidden ==
  /\ ~docHidden
  /\ docHidden' = TRUE
  \* handleVisibilityChange, attached while isActive
  /\ IF isActive /\ sessionType = "Work"
     THEN /\ blockedCount < MaxBlocked
          /\ blockedCount' = blockedCount + 1
     ELSE UNCHANGED blockedCount
  \* handleReturn, attached while the watchdogs are on
  /\ hiddenTime' = IF WatchdogsOn(isActive, sessionType) THEN now ELSE hiddenTime
  /\ UNCHANGED <<isActive, sessionType, timeLeft, currentSessionId, timerOn, tickClosure,
                 idleTimer, lastInput, permPending, remote, inflight, uiVars,
                 showRefocusPrompt, alertVars, now, permission, advances, sessEvents>>
  /\ UNCHANGED defaultPrevented

\* visibilitychange, document.hidden becoming false: handleReturn
pageShown ==
  /\ docHidden
  /\ docHidden' = FALSE
  /\ IF WatchdogsOn(isActive, sessionType) /\ hiddenTime > NoTime
     THEN /\ hiddenTime' = NoTime
          /\ IF AwayTooLong(now - hiddenTime)
             THEN /\ Len(distractionLog) < MaxEvents
                  /\ showRefocusPrompt' = TRUE
                  /\ triggerDistractionAlert("tab-switch", isActive, sessionType)
             ELSE UNCHANGED <<showRefocusPrompt, alertVars, sessEvents>>
     ELSE UNCHANGED <<hiddenTime, showRefocusPrompt, alertVars, sessEvents>>
  /\ UNCHANGED <<isActive, sessionType, timeLeft, currentSessionId, blockedCount, timerOn,
                 tickClosure, idleTimer, lastInput, permPending, remote, inflight,
                 uiVars, now, permission, advances>>
  /\ UNCHANGED defaultPrevented

\* mousemove, or a keydown that is no blocked shortcut: resetIdle
userActivity ==
  /\ WatchdogsOn(isActive, sessionType)
  /\ idleTimer' = ArmedIdleTimer(isActive, sessionType)
  /\ lastInput' = now
  /\ UNCHANGED <<isActive, sessionType, timeLeft, currentSessionId, blockedCount, timerOn,
                 tickClosure, hiddenTime, permPending, remote, inflight, uiVars,
                 showRefocusPrompt, alertVars, envVars, sessEvents>>
  /\ UNCHANGED defaultPrevented

\* Mutant: the shortcut is blocked in a Running session of either type.
BlocksShortcutAnyType(a, t) == a

\* handleKeydown is attached while isActive; if (!isActive || sessionType !== 'Work') return
BlocksShortcut(a, t) == a /\ t = "Work"

\* keydown of Ctrl/Meta + t or n: handleKeydown (document), then resetIdle (window)
handleKeydown ==
  /\ IF isActive /\ BlocksShortcut(isActive, sessionType)
     THEN /\ Len(distractionLog) < MaxEvents
          \* e.preventDefault()
          /\ defaultPrevented' = TRUE
          /\ blockedCount' = blockedCount + 1
          /\ triggerDistractionAlert("keyboard-shortcut", isActive, sessionType)
     ELSE /\ defaultPrevented' = FALSE
          /\ UNCHANGED <<blockedCount, alertVars, sessEvents>>
  /\ IF WatchdogsOn(isActive, sessionType)
     THEN /\ idleTimer' = ArmedIdleTimer(isActive, sessionType)
          /\ lastInput' = now
     ELSE UNCHANGED <<idleTimer, lastInput>>
  /\ UNCHANGED <<isActive, sessionType, timeLeft, currentSessionId, timerOn, tickClosure,
                 hiddenTime, permPending, remote, inflight, uiVars, showRefocusPrompt,
                 envVars>>

\* the idle setTimeout fires: triggerDistractionAlert('idle-detected')
idleTimerFires ==
  /\ idleTimer.at # NoTime
  /\ now >= idleTimer.at
  /\ Len(distractionLog) < MaxEvents
  /\ triggerDistractionAlert("idle-detected", idleTimer.isActive, idleTimer.sessionType)
  /\ idleTimer' = NoTimer
  /\ UNCHANGED <<isActive, sessionType, timeLeft, currentSessionId, blockedCount, timerOn,
                 tickClosure, hiddenTime, lastInput, permPending, remote, inflight,
                 uiVars, showRefocusPrompt, envVars>>
  /\ UNCHANGED defaultPrevented

\* the auto-dismiss setTimeout fires
alertTimeoutFires ==
  /\ alertTimeout # NoTime
  /\ now >= alertTimeout
  /\ distractionAlert' = NoAlert
  /\ streakWarning' = FALSE
  /\ alertTimeout' = NoTime
  /\ UNCHANGED <<distractionLog, sessionDistractions, lastDistractionTime,
                 distractionStreak, notified, commitVars, remote, inflight, uiVars,
                 showRefocusPrompt, envVars, sessEvents>>
  /\ UNCHANGED defaultPrevented

\* the X button of the alert
dismissAlert ==
  /\ distractionAlert # NoAlert
  /\ distractionAlert' = NoAlert
  /\ UNCHANGED <<distractionLog, streakWarning, sessionDistractions, lastDistractionTime,
                 distractionStreak, alertTimeout, notified, commitVars, remote, inflight,
                 uiVars, showRefocusPrompt, envVars, sessEvents>>
  /\ UNCHANGED defaultPrevented

\* "Refocus Now" of the prompt (rendered while showRefocusPrompt && isActive)
refocusNow ==
  /\ showRefocusPrompt /\ isActive
  /\ showRefocusPrompt' = FALSE
  /\ UNCHANGED <<commitVars, remote, inflight, uiVars, alertVars, envVars, sessEvents>>
  /\ UNCHANGED defaultPrevented

\* The summary is rendered while showSessionSummary && sessionDistractions.length > 0
SummaryVisible == showSessionSummary /\ Len(sessionDistractions) > 0

\* {sessionDistractions.length} of the summary
totalDistractions == Len(sessionDistractions)

\* Mutant: the score is not clamped at 0.
focusScoreUnclamped == FULL_SCORE - totalDistractions * SCORE_PER_DISTRACTION

\* Math.max(0, Math.round(100 - (sessionDistractions.length * 5)))
focusScorePercent == Max(0, FULL_SCORE - totalDistractions * SCORE_PER_DISTRACTION)

\* sessionDistractions.reduce((acc, d) => { acc[d.type] = (acc[d.type] || 0) + 1; return acc }, {})
\* over the first n entries of log
RECURSIVE Breakdown(_, _)
Breakdown(log, n) ==
  IF n = 0 THEN [k \in {} |-> 0]
  ELSE LET acc == Breakdown(log, n - 1)
           type == log[n].type
       IN [k \in DOMAIN acc \cup {type} |->
             IF k = type
             THEN (IF type \in DOMAIN acc THEN acc[type] ELSE 0) + 1
             ELSE acc[k]]

\* the breakdown rows of the summary
breakdown == Breakdown(sessionDistractions, Len(sessionDistractions))

\* `You blocked ${blockedCount} distractions`: the count in the completion
\* notification, read from the render that created the interval
CompletionNoticeCount == tickClosure.blocked

\* {blockedCount} of the summary's Blocked figure
SummaryBlocked == blockedCount

\* "Got it" of the summary
acknowledgeSummary ==
  /\ SummaryVisible
  /\ showSessionSummary' = FALSE
  /\ sessionDistractions' = <<>>
  /\ UNCHANGED <<distractionAlert, distractionLog, streakWarning, lastDistractionTime,
                 distractionStreak, alertTimeout, notified, commitVars, remote, inflight,
                 sessionCompleted, bannerTimer, showRefocusPrompt, envVars, sessEvents>>
  /\ UNCHANGED defaultPrevented

\* Notification.requestPermission() is answered
permissionAnswered ==
  /\ permPending
  /\ permPending' = FALSE
  /\ permission' \in {"granted", "denied", "default"}
  /\ UNCHANGED <<isActive, sessionType, timeLeft, currentSessionId, blockedCount, timerOn,
                 tickClosure, hiddenTime, idleTimer, lastInput, remote, inflight, uiVars,
                 showRefocusPrompt, alertVars, now, docHidden, advances, sessEvents>>
  /\ UNCHANGED defaultPrevented

\* ----------------------------------------------------------------- clock
PendingDeadlines ==
  {t \in {idleTimer.at, alertTimeout} : t # NoTime}

\* The instants the clock is advanced to: the pending deadlines, the instants
\* around each threshold the code compares a time difference with, and one
\* second from now.
ClockTargets ==
  PendingDeadlines
    \cup {now + MS_PER_SECOND}
    \cup (IF lastDistractionTime = NoTime THEN {}
          ELSE {lastDistractionTime + STREAK_WINDOW_MS - 1,
                lastDistractionTime + STREAK_WINDOW_MS})
    \cup (IF hiddenTime = NoTime THEN {}
          ELSE {hiddenTime + AWAY_LIMIT_S * MS_PER_SECOND,
                hiddenTime + AWAY_LIMIT_S * MS_PER_SECOND + 1})
    \cup (IF lastInput = NoTime THEN {}
          ELSE {lastInput + IDLE_MS - 1, lastInput + IDLE_MS})

\* Time passes up to instant t; a pending timer fires when it is due.
Advance(t) ==
  /\ advances < MaxAdvances
  /\ t > now
  /\ \A d \in PendingDeadlines : t <= d
  /\ now' = t
  /\ advances' = advances + 1
  /\ UNCHANGED <<commitVars, remote, inflight, uiVars, showRefocusPrompt, alertVars,
                 docHidden, permission, sessEvents>>
  /\ UNCHANGED defaultPrevented

\* ------------------------------------------------------- specifications
RemoteStep ==
  \E m \in BagToSet(inflight) :
    \/ RemoteStart(m)
    \/ RemoteEnd(m)
    \/ RemoteGetActive(m)

Continuation ==
  \E m \in BagToSet(inflight) :
    \/ handleStartResolved(m)
    \/ handleStartRejected(m)
    \/ endSessionSettled(m)
    \/ checkActiveSession(m)

\* The session machine and its reconciliation with the remote; the clock stands.
Next ==
  \/ handleStart
  \/ RemoteStep
  \/ \E m \in BagToSet(inflight) : NetworkFailure(m)
  \/ Continuation
  \/ handlePause
  \/ handleStop
  \/ handleReset
  \/ \E t \in SessionTypes : switchSessionType(t)
  \/ (timeLeft <= TickHorizon /\ Tick)
  \/ TickRun
  \/ bannerExpires
  \/ (Len(distractionLog) < MaxLogged /\ handleKeydown)
  \/ acknowledgeSummary

Spec == Init /\ [][Next]_vars

\* The watchdogs, the streak escalator and the alert timer under a running
\* clock, for as long as the timer stays Running.
NextWatch ==
  \/ (InFlight = 0 /\ handleStart)
  \/ RemoteStep
  \/ Continuation
  \/ handleKeydown
  \/ pageHidden
  \/ pageShown
  \/ userActivity
  \/ idleTimerFires
  \/ alertTimeoutFires
  \/ dismissAlert
  \/ refocusNow
  \/ \E t \in ClockTargets : Advance(t)

SpecWatch == Init /\ [][NextWatch]_vars

\* The same, with the permission request of the DND effect answered at any time
\* by the user: granted, denied, or dismissed.
NextNotify ==
  \/ NextWatch
  \/ permissionAnswered

SpecNotify == Init /\ [][NextNotify]_vars

\* The watchdogs across the exits from Running (pause, stop, reset, completion)
\* and the next entry, under a running clock. No earlier session at mount, and
\* the user waits for a remote call to settle before pressing start or stop.
InitExit == Init /\ remote = NoRemoteSession

NextExit ==
  \/ (InFlight = 0 /\ handleStart)
  \/ RemoteStep
  \/ Continuation
  \/ handlePause
  \/ (InFlight = 0 /\ handleStop)
  \/ handleReset
  \/ \E t \in SessionTypes : switchSessionType(t)
  \/ (timeLeft <= TickHorizon /\ Tick)
  \/ TickRun
  \/ (Len(distractionLog) < MaxLogged /\ handleKeydown)
  \/ pageHidden
  \/ (Len(distractionLog) < MaxLogged /\ pageShown)
  \/ userActivity
  \/ (Len(distractionLog) < MaxLogged /\ idleTimerFires)
  \/ alertTimeoutFires
  \/ (advances < MaxExitAdvances /\ \E t \in ClockTargets : Advance(t))

SpecExit == InitExit /\ [][NextExit]_vars

\* The summary of a completed Work session, for session logs of many lengths.
\* The types triggerDistractionAlert is called with.
EventKinds == {"keyboard-shortcut", "tab-switch", "idle-detected"}

KindCycle == <<"keyboard-shortcut", "tab-switch", "idle-detected">>

\* The events of a session started at mount, one a minute.
SummaryLog(kinds) ==
  [i \in 1..Len(kinds) |->
     [time |-> MountTime + i * SECONDS_PER_MINUTE * MS_PER_SECOND, type |-> kinds[i]]]

\* Every composition of a short log, and three compositions of each longer one:
\* one kind only, and the kinds in turn in either order.
SummaryKinds ==
  UNION {[1..n -> EventKinds] : n \in 0..MaxMixedLen}
    \cup {[i \in 1..n |-> KindCycle[((i * step) % 3) + 1]] :
            n \in (MaxMixedLen + 1)..MaxSummaryLen, step \in 0..2}

\* A Work session started at mount has run to completion and its end call has
\* been settled.
InitSummary ==
  \E kinds \in SummaryKinds :
    LET log == SummaryLog(kinds)
        n == Len(kinds)
    IN /\ timeLeft = 0
       /\ isActive = FALSE
       /\ sessionType = "Work"
       /\ currentSessionId = NoId
       /\ sessionCompleted = TRUE
       /\ blockedCount = 0
       /\ distractionAlert = NoAlert
       /\ distractionLog = log
       /\ streakWarning = FALSE
       /\ showRefocusPrompt = FALSE
       /\ showSessionSummary = TRUE
       /\ sessionDistractions = log
       /\ lastDistractionTime = IF n = 0 THEN NoTime ELSE log[n].time
       /\ distractionStreak = n
       /\ alertTimeout = NoTime
       /\ timerOn = FALSE
       /\ tickClosure = [sid |-> 1, blocked |-> 0]
       /\ idleTimer = NoTimer
       /\ hiddenTime = NoTime
       /\ bannerTimer = TRUE
       /\ now = MountTime + totalSeconds("Work") * MS_PER_SECOND
       /\ docHidden = FALSE
       /\ permission = "default"
       /\ permPending = TRUE
       /\ notified = FALSE
       /\ defaultPrevented = (\E i \in 1..n : kinds[i] = "keyboard-shortcut")
       /\ remote = [active |-> FALSE, id |-> 1, start |-> MountTime,
                    planned |-> WORK_MINUTES]
       /\ inflight = EmptyBag
       /\ advances = 0
       /\ lastInput = MountTime
       /\ sessEvents = n

NextSummary == acknowledgeSummary

SpecSummary == InitSummary /\ [][NextSummary]_vars

\* One session after another under a running clock: start, shortcuts, stop,
\* start again.
NextRestart ==
  \/ handleStart
  \/ RemoteStep
  \/ Continuation
  \/ handleStop
  \/ handleKeydown
  \/ \E t \in ClockTargets : Advance(t)

SpecRestart == Init /\ [][NextRestart]_vars

\* A session left to itself: the user starts sessions and then neither pauses,
\* stops nor resets. The interval fires every second while it exists, and a
\* remote call is answered, and its answer handled, after a finite time.
NextLive ==
  \/ handleStart
  \/ RemoteStep
  \/ \E m \in BagToSet(inflight) : NetworkFailure(m)
  \/ Continuation
  \/ (timeLeft <= TickHorizon /\ Tick)
  \/ TickRun
  \/ bannerExpires

Fairness ==
  /\ WF_vars(timeLeft <= TickHorizon /\ Tick)
  /\ WF_vars(TickRun)
  /\ WF_vars(RemoteStep)
  /\ WF_vars(Continuation)

SpecLive == Init /\ [][NextLive]_vars /\ Fairness

\* ================================================================ claims
\* The length of the longest suffix of the first n events of log in which each
\* event is less than STREAK_WINDOW_MS after the one before it.
RECURSIVE ClusterLength(_, _)
ClusterLength(log, n) ==
  IF n = 0 THEN 0
  ELSE IF n = 1 THEN 1
  ELSE IF log[n].time - log[n - 1].time < STREAK_WINDOW_MS
       THEN 1 + ClusterLength(log, n - 1)
       ELSE 1

\* C2: after every sequence of DistractionEvents the streak count is the length
\* of the longest suffix of events each less than 120 000 ms after the previous
\* one (the first event ever counts 1).
C2_StreakIsClusterLength ==
  distractionStreak = ClusterLength(distractionLog, Len(distractionLog))

\* C2 witness: three events, the second exactly 120 000 ms after the first (the
\* count restarted) and the third 4 000 ms after the second.
C2_Witness ==
  /\ Len(distractionLog) = 3
  /\ distractionLog[2].time - distractionLog[1].time = STREAK_WINDOW_MS
  /\ distractionLog[3].time - distractionLog[2].time = 4000
  /\ distractionStreak = 2

\* C3: the Alert raised for an event is critical iff the streak count after
\* that event is >= 3, and warning otherwise.
C3_SeverityFollowsStreak ==
  [][Len(distractionLog') > Len(distractionLog)
       => /\ distractionAlert'.raisedAt = now
          /\ distractionAlert'.severity =
               IF distractionStreak' >= 3 THEN "critical" ELSE "warning"]_vars

\* C3 witness: a critical Alert is visible for the third event of a streak.
C3_Witness ==
  /\ distractionStreak = 3
  /\ distractionAlert.severity = "critical"
  /\ distractionAlert.raisedAt = distractionLog[Len(distractionLog)].time

\* C4: the continuation of a start that the remote rejected as AlreadyActive
\* leaves the timer Running (a timer that was not Running starts to tick if
\* time remains) and changes nothing else the user sees: remaining time, session id, banners, summary, alert and log
\* stay as they were. This holds for every number of calls in flight.
C4_AlreadyActiveResumes ==
  [][\A m \in BagToSet(inflight) :
       (m.st = "already" /\ handleStartRejected(m))
         => /\ isActive'
            /\ ((~isActive /\ timeLeft > 0) => timerOn')
            /\ UNCHANGED <<timeLeft, currentSessionId, uiVars, alertVars,
                           showRefocusPrompt>>]_vars

\* C4 witness: two starts were in flight and the rejection of the second was
\* delivered first: the timer is Running and ticking without a session id
\* while the success of the first is still to be delivered.
C4_Witness ==
  /\ isActive /\ timerOn
  /\ currentSessionId = NoId
  /\ \E m \in BagToSet(inflight) : m.op = "start" /\ m.st = "ok"
  /\ \A m \in BagToSet(inflight) : m.op # "end"

C6_EveryExitEndsRemote ==
  [][/\ (isActive /\ handleStop) => inflight' = Sent(Msg("end", 0, FALSE, "stop"))
     /\ (timeLeft <= 1 /\ Tick) => inflight' = Sent(Msg("end", 0, TRUE, "complete"))]_vars

\* C7 as claimed: a tick with more than 1 s remaining keeps the timer Running
\* and takes 1 s off; the tick at 1 s remaining completes the session at 0, and
\* if no DistractionEvent was emitted during the session the summary then has
\* totalDistractions = 0 and focusScorePercent = 100.
C7_CountdownThenCleanSummary ==
  [][Tick =>
       IF timeLeft > 1
       THEN isActive' /\ timeLeft' = timeLeft - 1
       ELSE /\ ~isActive' /\ sessionCompleted' /\ timeLeft' = 0
            /\ (sessEvents = 0
                  => totalDistractions' = 0 /\ focusScorePercent' = FULL_SCORE)]_vars

\* C8: the visible Alert, raised at t, has exactly one dismissal pending, at
\* t + 4 000 ms (warning) or t + 6 000 ms (critical), and is not visible after
\* that time: the timer of an earlier Alert was cancelled when this one was
\* raised. (One Alert is held, so at most one is visible.)
C8_VisibleAlertHasItsOwnTimer ==
  distractionAlert # NoAlert
    => /\ alertTimeout = distractionAlert.raisedAt
                           + (IF distractionAlert.severity = "critical" THEN 6000 ELSE 4000)
       /\ now <= alertTimeout

\* C8: the dismissal timer, when it fires, dismisses the Alert 4 000 ms
\* (warning) or 6 000 ms (critical) after the Alert was raised.
C8_TimerDismissesOnTime ==
  [][(alertTimeoutFires /\ distractionAlert # NoAlert)
       => /\ distractionAlert' = NoAlert
          /\ now = distractionAlert.raisedAt
                     + (IF distractionAlert.severity = "critical" THEN 6000 ELSE 4000)]_vars

C9_TabSwitchIffAwayOver5s ==
  [][(pageShown /\ WatchdogsOn(isActive, sessionType) /\ hiddenTime > NoTime)
       => IF now - hiddenTime > 5000
          THEN /\ distractionLog' =
                    Append(distractionLog, [time |-> now, type |-> "tab-switch"])
               /\ showRefocusPrompt'
          ELSE /\ distractionLog' = distractionLog
               /\ showRefocusPrompt' = showRefocusPrompt]_vars

\* C9 witness: the page was shown again exactly 5 000 ms after it was hidden
\* (nothing logged), hidden again, and shown after 5 001 ms (tab-switch logged).
C9_Witness ==
  /\ isActive /\ sessionType = "Work" /\ ~docHidden
  /\ Len(distractionLog) = 1
  /\ distractionLog[1] = [time |-> now, type |-> "tab-switch"]
  /\ showRefocusPrompt
  /\ advances = 3
  /\ blockedCount = 2

\* C10: the idle timer fires only in a Running Work session, and only when at
\* least 180 000 ms have passed since the last pointer-move or key-down (or
\* since the watchdog was attached): it never fires early.
C10_FiresOnlyAfterIdleInterval ==
  [][idleTimerFires
       => /\ isActive /\ sessionType = "Work"
          /\ now - lastInput >= 180000
          /\ distractionLog' =
               Append(distractionLog, [time |-> now, type |-> "idle-detected"])]_vars

\* C10: every pointer-move or key-down restarts the idle interval from zero.
C10_ActivityRestarts ==
  [][(userActivity \/ (handleKeydown /\ sessionType = "Work"))
       => idleTimer'.at = now + 180000]_vars

\* C10: both of the above.
C10_IdleNeverEarly == C10_FiresOnlyAfterIdleInterval /\ C10_ActivityRestarts

\* C10 witness: idle-detected was logged 180 000 ms after an activity that
\* itself came after the watchdog was attached.
C10_Witness ==
  /\ Len(distractionLog) = 1
  /\ distractionLog[1].type = "idle-detected"
  /\ distractionLog[1].time = lastInput + 180000
  /\ lastInput > MountTime

\* C1: a DistractionEvent is appended to the log, and the streak, the
\* last-event time or the Alert are set by a watchdog, only in a step taken
\* while the timer is Running with session type Work.
C1_NoEventOutsideRunningWork ==
  [][(\/ Len(distractionLog') > Len(distractionLog)
      \/ Len(sessionDistractions') > Len(sessionDistractions)
      \/ distractionStreak' \notin {distractionStreak, 0}
      \/ lastDistractionTime' \notin {lastDistractionTime, NoTime}
      \/ distractionAlert' \notin {distractionAlert, NoAlert})
       => (isActive /\ sessionType = "Work")]_vars

\* C1 witness: the timer left Running with the idle timer armed; the idle
\* interval has since run out on a visible page and nothing was logged.
C1_Witness ==
  /\ ~isActive
  /\ lastInput # NoTime
  /\ now >= lastInput + IDLE_MS
  /\ blockedCount = 0 /\ ~docHidden /\ advances = 2
  /\ distractionLog = <<>>

\* C11: a key-down of Ctrl/Meta + t or n while a Work session is Running has
\* its default prevented, adds exactly 1 to the blocked-attempt counter and
\* appends exactly one keyboard-shortcut event to the log and to the session's
\* events; in every other state it does none of these.
C11_ShortcutBlockedOnlyInRunningWork ==
  [][handleKeydown =>
       IF isActive /\ sessionType = "Work"
       THEN /\ defaultPrevented'
            /\ blockedCount' = blockedCount + 1
            /\ distractionLog' =
                 Append(distractionLog, [time |-> now, type |-> "keyboard-shortcut"])
            /\ sessionDistractions' =
                 Append(sessionDistractions, [time |-> now, type |-> "keyboard-shortcut"])
       ELSE /\ ~defaultPrevented'
            /\ UNCHANGED <<blockedCount, distractionLog, sessionDistractions>>]_vars

\* C11 witness: one shortcut was blocked in a Running Work session.
C11_Witness ==
  /\ isActive /\ sessionType = "Work"
  /\ defaultPrevented
  /\ blockedCount = 1
  /\ Len(distractionLog) = 1 /\ distractionLog[1].type = "keyboard-shortcut"

\* The states of the session machine, as far as the component's state tells
\* them apart: Running is isActive; a timer that is not Running is Idle when
\* the remaining time is the configured duration, and otherwise Paused (time
\* remains) or Completed (none remains).
ConfiguredSeconds(t) == IF t = "Work" THEN 1500 ELSE 300
Running == isActive
Idle == ~isActive /\ timeLeft = ConfiguredSeconds(sessionType)
Paused == ~isActive /\ timeLeft # ConfiguredSeconds(sessionType) /\ timeLeft > 0
Completed == ~isActive /\ timeLeft = 0

\* C12 as claimed: pressing start while the timer is Paused or Completed sends
\* no remote call and changes neither the status nor the remaining time.
C12_StartOnlyFromIdle ==
  [][((Paused \/ Completed) /\ handleStart)
       => UNCHANGED <<inflight, isActive, timeLeft>>]_vars

\* C13: the continuation of the mount query, when the remote reported an active
\* session, adopts its id, enters Running and sets the remaining time to
\* max(0, floor(planned * 60 - elapsed)) with elapsed the wall-clock time since
\* the remote start; when the query failed or reported no session it changes
\* nothing.
C13_MountResume ==
  [][\A m \in BagToSet(inflight) :
       checkActiveSession(m) =>
         IF m.st = "ok" /\ m.active
         THEN /\ isActive'
              /\ currentSessionId' = m.id
              /\ LET leftMs == m.planned * SECONDS_PER_MINUTE * MS_PER_SECOND
                                 - (now - m.start)
                 IN timeLeft' = IF leftMs < 0 THEN 0 ELSE leftMs \div MS_PER_SECOND
         ELSE UNCHANGED <<isActive, currentSessionId, timeLeft, timerOn>>]_vars

\* C13 witness: the session found at mount had 1.5 s left; the timer is Running
\* under its id with 1 s remaining, and no other call was made.
C13_Witness ==
  /\ isActive /\ timerOn
  /\ currentSessionId = remote.id /\ remote.active
  /\ (remote.planned * SECONDS_PER_MINUTE * MS_PER_SECOND - (now - remote.start)) = 1500
  /\ timeLeft = 1
  /\ InFlight = 0

\* C14: no state of the component disables stop or reset, or start while the
\* timer is not Running (a call can be sent whenever the bound on calls in
\* flight leaves room).
C14_OperationsAvailable ==
  InFlight < MaxInFlight
    => /\ ENABLED handleStop
       /\ ENABLED handleReset
       /\ (~isActive /\ remote.id < MaxSessions) => ENABLED handleStart

\* C14: stop leaves Running and resets the remaining time, and the tick that
\* reaches 0 leaves Running as completed, before the end call is answered; the
\* continuation of a failed end call then changes nothing of the timer, the
\* banner, the summary or the alert.
C14_FailedEndChangesNothing ==
  [][/\ handleStop => (~isActive' /\ timeLeft' = totalSeconds(sessionType))
     /\ (timeLeft <= 1 /\ Tick) => (~isActive' /\ sessionCompleted' /\ timeLeft' = 0)
     /\ \A m \in BagToSet(inflight) :
          (m.st = "fail" /\ endSessionSettled(m))
            => UNCHANGED <<commitVars, sessionCompleted, showSessionSummary, alertVars,
                           showRefocusPrompt>>]_vars

\* C14: both of the above.
C14_EndFailureDoesNotBlock == []C14_OperationsAvailable /\ C14_FailedEndChangesNothing

\* C14 witness: the end call of a completion failed and was settled: the timer
\* is Completed, still holding the session id its tick was started with.
C14_Witness ==
  /\ Completed /\ sessionCompleted /\ bannerTimer
  /\ currentSessionId # NoId /\ tickClosure.sid = currentSessionId
  /\ InFlight = 0

\* C15: stop, pressed in any state, leaves the timer Idle at the configured
\* duration of the current session type (1500 s for Work, 300 s for Break) and
\* touches neither the completed flag, the summary nor the notification flag
\* (the completion notification is emitted only where the completed flag is set).
C15_StopReturnsToIdle ==
  [][handleStop =>
       /\ Idle'
       /\ UNCHANGED <<sessionType, sessionCompleted, showSessionSummary, bannerTimer,
                      notified>>]_vars

\* C15 witness: a Running Break session was stopped: the timer is Idle at 300 s,
\* not marked completed, and the end call of the stop is in flight.
C15_Witness ==
  /\ Idle /\ sessionType = "Break" /\ timeLeft = 300
  /\ ~sessionCompleted /\ ~showSessionSummary
  /\ BagIn(Msg("end", 0, FALSE, "stop"), inflight)

\* C16: reset, pressed in any state, leaves the timer Idle at the configured
\* duration with streak count 0, no last-event time, an empty log, no Alert and
\* no streak warning, blocked-attempt counter 0, and neither the refocus prompt
\* nor the summary shown.
C16_ResetClearsSession ==
  [][handleReset =>
       /\ Idle' /\ UNCHANGED sessionType
       /\ distractionStreak' = 0 /\ lastDistractionTime' = NoTime
       /\ distractionLog' = <<>> /\ sessionDistractions' = <<>>
       /\ distractionAlert' = NoAlert /\ ~streakWarning'
       /\ blockedCount' = 0
       /\ ~showRefocusPrompt' /\ ~showSessionSummary' /\ ~sessionCompleted'
       /\ currentSessionId' = NoId]_vars

\* C16 witness: a session with a logged event and a visible Alert was reset:
\* everything is cleared while the dismissal timer of that Alert is still pending.
C16_Witness ==
  /\ Idle
  /\ alertTimeout # NoTime
  /\ distractionAlert = NoAlert /\ distractionLog = <<>> /\ sessionDistractions = <<>>
  /\ distractionStreak = 0 /\ lastDistractionTime = NoTime /\ blockedCount = 0

\* C17: no interval runs while the timer is not Running.
C17_NoTickUnlessRunning == timerOn => isActive

\* C17: pause from Running leaves Running with the remaining time as it was and
\* the interval cleared, and every tick is taken while Running and never adds
\* to the remaining time.
C17_PauseFreezes ==
  [][/\ (isActive /\ handlePause)
          => (~isActive' /\ ~timerOn' /\ timeLeft' = timeLeft)
     /\ (Tick \/ TickRun) => (isActive /\ timeLeft' <= timeLeft)]_vars

\* C17: both of the above.
C17_PauseSuspendsTick == []C17_NoTickUnlessRunning /\ C17_PauseFreezes

\* C17 witness: a session under a remote id was paused after it had ticked
\* down to 2 s: the time stands and no interval runs.
C17_Witness ==
  /\ Paused /\ ~timerOn
  /\ timeLeft = 2
  /\ currentSessionId # NoId

\* C18: pause invoked while the timer is not Running changes nothing and sends
\* no remote call.
C18_PauseOutsideRunningIsNoOp ==
  [][(~isActive /\ handlePause) => UNCHANGED vars]_vars

\* C18 witness: the timer is Completed with its summary flag set, a state in
\* which pause can only be a no-op.
C18_Witness ==
  /\ Completed /\ ~timerOn
  /\ sessionCompleted /\ showSessionSummary
  /\ ENABLED handlePause

RECURSIVE SumOfCounts(_, _)
SumOfCounts(counts, kinds) ==
  IF kinds = {} THEN 0
  ELSE LET k == CHOOSE x \in kinds : TRUE
       IN counts[k] + SumOfCounts(counts, kinds \ {k})

\* C19: for the session's event log, totalDistractions is its length, the
\* breakdown has one row for each kind that occurs, with the number of events
\* of that kind, the rows sum to totalDistractions, and focusScorePercent is
\* 100 - 5 * totalDistractions, or 0 from 20 events on.
C19_SummaryAggregates ==
  LET n == Len(sessionDistractions)
  IN /\ totalDistractions = n
     /\ DOMAIN breakdown = {sessionDistractions[i].type : i \in 1..n}
     /\ \A k \in DOMAIN breakdown :
          breakdown[k] = Cardinality({i \in 1..n : sessionDistractions[i].type = k})
     /\ SumOfCounts(breakdown, DOMAIN breakdown) = totalDistractions
     /\ focusScorePercent = (IF n >= 20 THEN 0 ELSE 100 - 5 * n)
     /\ focusScorePercent >= 0

\* C19 witness: the summary of a session with 21 events of three kinds is
\* shown, with a focus score of 0.
C19_Witness ==
  /\ SummaryVisible
  /\ totalDistractions = 21
  /\ Cardinality(DOMAIN breakdown) = 3
  /\ focusScorePercent = 0

\* C20: a stop pressed while the timer is Idle, the state a stop leaves,
\* changes neither the status, the remaining time, the local session id nor
\* the remote session; an end call handled by the remote for a session that
\* has ended leaves the remote session as it is; and the continuation of a
\* stop's end call that finds the local id already dropped changes nothing of
\* the timer.
C20_StopTwiceIsStopOnce ==
  [][/\ (Idle /\ handleStop)
          => UNCHANGED <<isActive, timeLeft, currentSessionId, remote>>
     /\ \A m \in BagToSet(inflight) :
          /\ (~remote.active /\ RemoteEnd(m)) => UNCHANGED remote
          /\ (currentSessionId = NoId /\ m.src = "stop" /\ endSessionSettled(m))
               => UNCHANGED <<isActive, timeLeft, currentSessionId, remote>>]_vars

\* C20 witness: stop was pressed twice in a row while a remote id was held:
\* the timer is Idle and both end calls are in flight.
C20_Witness ==
  /\ Idle
  /\ currentSessionId # NoId
  /\ InFlight = 2
  /\ \A m \in BagToSet(inflight) : m.op = "end" /\ m.src = "stop"

\* C21 as claimed: a stop that ends a Running session and the tick that
\* completes one each produce the session summary, and acknowledging the
\* summary leaves the session's event log empty.
C21_SummaryOncePerSession ==
  [][/\ (isActive /\ handleStop) => showSessionSummary'
     /\ (timeLeft <= 1 /\ Tick) => showSessionSummary'
     /\ acknowledgeSummary => (~showSessionSummary' /\ sessionDistractions' = <<>>)]_vars

\* C22 as claimed: the first DistractionEvent after a Work session was started
\* yields streak count 1 and severity warning, whatever was emitted before the
\* start and however recently.
C22_FirstEventOfSessionCountsOne ==
  [][(sessEvents = 0 /\ Len(distractionLog') > Len(distractionLog))
       => (distractionStreak' = 1 /\ distractionAlert'.severity = "warning")]_vars

\* C23 as claimed: the idle timer, when it fires in a Running Work session,
\* emits idle-detected and is armed again for a further 180 000 ms.
C23_IdleRearmsAfterFiring ==
  [][(idleTimerFires /\ isActive /\ sessionType = "Work")
       => /\ distractionLog' =
               Append(distractionLog, [time |-> now, type |-> "idle-detected"])
          /\ idleTimer'.at = now + 180000]_vars

\* C24 as claimed: the summary at the completion of a session counts the
\* events emitted since that session was started, and no others.
C24_SummaryCountsThisSessionOnly ==
  [][(timeLeft <= 1 /\ Tick /\ sessionType = "Work")
       => (showSessionSummary' /\ totalDistractions' = sessEvents)]_vars

\* C25 as claimed: at the tick that completes a session, the count the
\* completion notification reports and the Blocked figure of the summary then
\* shown both equal the blocked attempts counted during the session.
C25_CompletionReportsBlockedCount ==
  [][(timeLeft <= 1 /\ Tick)
       => /\ CompletionNoticeCount = blockedCount
          /\ SummaryBlocked' = blockedCount]_vars

\* C26: every DistractionEvent raises the in-app Alert for its kind, whatever
\* the notification permission is, and leaves the timer as it was; a system
\* notification is shown for it iff its severity is critical and the
\* permission is granted.
C26_NotificationGatedAlertNot ==
  [][Len(distractionLog') > Len(distractionLog)
       => /\ distractionAlert'.raisedAt = now
          /\ distractionAlert'.type = distractionLog'[Len(distractionLog')].type
          /\ distractionAlert'.severity \in {"warning", "critical"}
          /\ notified' = (distractionAlert'.severity = "critical" /\ permission = "granted")
          /\ UNCHANGED <<isActive, timeLeft, timerOn, currentSessionId>>]_vars

\* C26 witness: the third event of a streak raised a critical Alert after the
\* permission request was denied: the Alert is visible, no system notification
\* was shown and the session is Running.
C26_Witness ==
  /\ permission = "denied"
  /\ isActive
  /\ distractionStreak = 3
  /\ distractionAlert.severity = "critical" /\ distractionAlert.raisedAt = now
  /\ ~notified

\* C26 witness of the other direction: with the permission granted, the third
\* event of a streak showed a system notification.
C26_NotifiedWhenGranted ==
  /\ permission = "granted"
  /\ distractionAlert.severity = "critical" /\ distractionAlert.raisedAt = now
  /\ notified

\* C27 as claimed: a timer that is Running, and is neither paused, stopped nor
\* reset, eventually is Completed.
C27_RunningEventuallyCompletes == isActive ~> Completed

\* C28 as claimed: the session summary is never visible while the timer is
\* Running.
C28_NoSummaryWhileRunning == ~(isActive /\ SummaryVisible)

\* C29 as claimed: a step that finds the timer Running under a remote session
\* id and leaves it Running leaves that id as it is: the id changes only where
\* the session is completed, stopped or reset.
C29_RunningKeepsSessionId ==
  [][(isActive /\ currentSessionId # NoId /\ isActive')
       => currentSessionId' = currentSessionId]_vars

\* C30 as claimed: when the response to a local start puts the timer into
\* Running, the remaining time is at most the configured duration of the
\* session type then selected; and a stop or reset leaves no start pending
\* that could put the timer into Running afterwards.
C30_StartedWithinConfiguredDuration ==
  [][/\ \A m \in BagToSet(inflight) :
          handleStartResolved(m) => timeLeft' <= ConfiguredSeconds(sessionType')
     /\ (handleStop \/ handleReset)
          => \A m \in BagToSet(inflight') : m.op # "start"]_vars
====
